---- MODULE Spec2Model ----
(***************************************************************************)
(* A model of the vibe-assistant backend: the prompt composer              *)
(* (/api/prompt/build, /api/prompt/enhance), the Bedrock adapter it calls  *)
(* and the user configuration file (/api/user/config, /api/requirements).  *)
(* Spec takes one request at a time through the composer and the config   *)
(* routes, SpecRoutes through the other routes of the app (health,         *)
(* Bedrock test and chat, the GitHub routes), and SpecThreaded serves two  *)
(* requests at once, each on its own thread.                               *)
(*                                                                         *)
(* Text is a sequence of string tokens: one token per literal fragment of  *)
(* the source ("Task: ", a persona sentence, a requirement, ...), and one  *)
(* token "\n" per line break, so "\n\n" is the two tokens NL, NL.          *)
(*                                                                         *)
(* JSON is modelled on two levels: a value (what Python holds after        *)
(* json.load / request.get_json) and a text (the tokens json.dump writes   *)
(* and json.loads reads).                                                  *)
(***************************************************************************)
EXTENDS Naturals, Sequences, FiniteSets, TLC

VARIABLES
    configFile,     \* config/user_config.json: [exists, text]
    lastPosted,     \* history: the document of the last POST /api/user/config
                    \* that succeeded with no other write after it
    pc,             \* "idle" (waiting for a request) or "responded"
    req,            \* the request being answered, with what it observed
    resp,           \* the response of the handler
    githubClient,   \* github_service, the GitHubService made at import: [token]
    workers,        \* the requests being served at once, one per thread
    finished        \* history: the workers in the order they finished

vars == <<configFile, lastPosted, pc, req, resp, githubClient, workers, finished>>

----------------------------------------------------------------------------
(* Bounds of the model *)

\* longest stored requirement list
MaxReqs == 6
\* longest selected_files list of a request
MaxFiles == 2

----------------------------------------------------------------------------
(* Text *)

NL == "\n"

RECURSIVE Join(_, _)
\* sep.join(parts), for parts a sequence of texts
Join(parts, sep) ==
    IF parts = <<>> THEN <<>>
    ELSE IF Len(parts) = 1 THEN parts[1]
    ELSE parts[1] \o sep \o Join(Tail(parts), sep)

\* whether text t holds the token tok
HasToken(t, tok) == \E i \in 1..Len(t) : t[i] = tok

\* whether text s occurs in text t as a contiguous run
Occurs(s, t) ==
    \E i \in 0..(Len(t) - Len(s)) :
        \A j \in 1..Len(s) : t[i + j] = s[j]

IsPrefix(s, t) ==
    /\ Len(s) <= Len(t)
    /\ \A j \in 1..Len(s) : t[j] = s[j]

IsWhite(tok) == tok \in {" ", NL, "\t"}

RECURSIVE LStrip(_)
LStrip(t) == IF t # <<>> /\ IsWhite(Head(t)) THEN LStrip(Tail(t)) ELSE t

RECURSIVE RStrip(_)
RStrip(t) ==
    IF t # <<>> /\ IsWhite(t[Len(t)]) THEN RStrip(SubSeq(t, 1, Len(t) - 1)) ELSE t

\* str.strip()
Strip(t) == RStrip(LStrip(t))

----------------------------------------------------------------------------
(* JSON values: every value is a record [k, s, items].                     *)
(*   k = "str": the string s          k = "num": the number written s      *)
(*   k = "true" / "false" / "null"                                         *)
(*   k = "arr": the list items        k = "obj": the dict of members items *)
(*   k = "member": key s with the value items[1] (inside an "obj" only)    *)

Str(s) == [k |-> "str", s |-> s, items |-> <<>>]
Num(s) == [k |-> "num", s |-> s, items |-> <<>>]
JTrue == [k |-> "true", s |-> "", items |-> <<>>]
JNull == [k |-> "null", s |-> "", items |-> <<>>]
Arr(items) == [k |-> "arr", s |-> "", items |-> items]
Member(key, v) == [k |-> "member", s |-> key, items |-> <<v>>]
Obj(members) == [k |-> "obj", s |-> "", items |-> members]

StrList(ss) == Arr([i \in 1..Len(ss) |-> Str(ss[i])])

HasKey(d, key) == \E i \in 1..Len(d.items) : d.items[i].s = key

\* dict.get(key, default)
DictGet(d, key, default) ==
    IF HasKey(d, key)
    THEN (d.items[CHOOSE i \in 1..Len(d.items) : d.items[i].s = key]).items[1]
    ELSE default

\* d[key] = v: an existing key keeps its place, a new key goes last
DictSet(d, key, v) ==
    IF HasKey(d, key)
    THEN Obj([i \in 1..Len(d.items) |->
                IF d.items[i].s = key THEN Member(key, v) ELSE d.items[i]])
    ELSE Obj(Append(d.items, Member(key, v)))

----------------------------------------------------------------------------
(* JSON text: a sequence of tokens [t, s].                                 *)
(*   t = "punct": one of { } [ ] , :     t = "ws": a line break or a space *)
(*   t = "string": the string literal with content s                       *)
(*   t = "number", t = "lit" (true, false, null), t = "word" (other text)  *)

Tok(t, s) == [t |-> t, s |-> s]
LBrace == Tok("punct", "{")
RBrace == Tok("punct", "}")
LBracket == Tok("punct", "[")
RBracket == Tok("punct", "]")
Comma == Tok("punct", ",")
Colon == Tok("punct", ":")
Space == Tok("ws", " ")
Newline == Tok("ws", NL)
StrTok(s) == Tok("string", s)
Word(s) == Tok("word", s)

\* the two spaces json.dump(indent=2) writes per level
IndentUnit == <<Space, Space>>

RECURSIVE Indent(_)
Indent(depth) == IF depth = 0 THEN <<>> ELSE IndentUnit \o Indent(depth - 1)

NewlineIndent(depth) == <<Newline>> \o Indent(depth)

RECURSIVE DumpValue(_, _), DumpItems(_, _, _)
\* json.dump(v, f, indent=2) of a value at nesting depth
DumpValue(v, depth) ==
    CASE v.k = "str" -> <<StrTok(v.s)>>
      [] v.k = "num" -> <<Tok("number", v.s)>>
      [] v.k \in {"true", "false", "null"} -> <<Tok("lit", v.k)>>
      [] v.k = "arr" ->
            IF v.items = <<>> THEN <<LBracket, RBracket>>
            ELSE <<LBracket>> \o DumpItems(v.items, depth + 1, 1)
                 \o NewlineIndent(depth) \o <<RBracket>>
      [] v.k = "obj" ->
            IF v.items = <<>> THEN <<LBrace, RBrace>>
            ELSE <<LBrace>> \o DumpItems(v.items, depth + 1, 1)
                 \o NewlineIndent(depth) \o <<RBrace>>
      [] v.k = "member" ->
            <<StrTok(v.s), Colon, Space>> \o DumpValue(v.items[1], depth)

DumpItems(items, depth, i) ==
    IF i > Len(items) THEN <<>>
    ELSE NewlineIndent(depth) \o DumpValue(items[i], depth)
         \o (IF i < Len(items) THEN <<Comma>> ELSE <<>>)
         \o DumpItems(items, depth, i + 1)

JsonDump(v) == DumpValue(v, 0)

\* the result of a parse step: the value and the index after it, or a failure
ParseOk(v, next) == [ok |-> TRUE, v |-> v, next |-> next]
ParseFail == [ok |-> FALSE, v |-> JNull, next |-> 0]

RECURSIVE SkipWs(_, _)
SkipWs(toks, i) ==
    IF i <= Len(toks) /\ toks[i].t = "ws" THEN SkipWs(toks, i + 1) ELSE i

RECURSIVE ParseValue(_, _), ParseElements(_, _, _), ParseMembers(_, _, _)
\* the JSON value starting at token i0 (after white space)
ParseValue(toks, i0) ==
    LET i == SkipWs(toks, i0) IN
    IF i > Len(toks) THEN ParseFail
    ELSE LET tk == toks[i]
             j == SkipWs(toks, i + 1)
         IN  CASE tk.t = "string" -> ParseOk(Str(tk.s), i + 1)
               [] tk.t = "number" -> ParseOk(Num(tk.s), i + 1)
               [] tk.t = "lit" -> ParseOk([k |-> tk.s, s |-> "", items |-> <<>>], i + 1)
               [] tk = LBracket ->
                    IF j <= Len(toks) /\ toks[j] = RBracket
                    THEN ParseOk(Arr(<<>>), j + 1)
                    ELSE ParseElements(toks, i + 1, <<>>)
               [] tk = LBrace ->
                    IF j <= Len(toks) /\ toks[j] = RBrace
                    THEN ParseOk(Obj(<<>>), j + 1)
                    ELSE ParseMembers(toks, i + 1, Obj(<<>>))
               [] OTHER -> ParseFail

\* the elements of an array after "[" or ",", up to "]"
ParseElements(toks, i, acc) ==
    LET r == ParseValue(toks, i) IN
    IF ~r.ok THEN ParseFail
    ELSE LET j == SkipWs(toks, r.next) IN
         IF j > Len(toks) THEN ParseFail
         ELSE IF toks[j] = Comma THEN ParseElements(toks, j + 1, Append(acc, r.v))
         ELSE IF toks[j] = RBracket THEN ParseOk(Arr(Append(acc, r.v)), j + 1)
         ELSE ParseFail

\* the members of an object after "{" or ",", up to "}"
ParseMembers(toks, i0, acc) ==
    LET i == SkipWs(toks, i0)
        c == SkipWs(toks, i + 1)
    IN  IF i > Len(toks) \/ c > Len(toks) THEN ParseFail
        ELSE IF toks[i].t # "string" \/ toks[c] # Colon THEN ParseFail
        ELSE LET r == ParseValue(toks, c + 1) IN
             IF ~r.ok THEN ParseFail
             ELSE LET j == SkipWs(toks, r.next)
                      acc2 == DictSet(acc, toks[i].s, r.v)
                  IN  IF j > Len(toks) THEN ParseFail
                      ELSE IF toks[j] = Comma THEN ParseMembers(toks, j + 1, acc2)
                      ELSE IF toks[j] = RBrace THEN ParseOk(acc2, j + 1)
                      ELSE ParseFail

\* json.loads(text): fails (raises) on anything but one value and white space
JsonLoads(toks) ==
    LET r == ParseValue(toks, 1) IN
    IF r.ok /\ SkipWs(toks, r.next) > Len(toks) THEN r ELSE ParseFail

----------------------------------------------------------------------------
(* Program constants *)

\* the default of MAX_FILE_SIZE_KB
MaxFileSizeKB == 100
\* how many stored requirements the fallback enhancement appends
FallbackLimit == 5

\* max_file_size of build_prompt, in bytes
MaxFileSize == MaxFileSizeKB * 1024

----------------------------------------------------------------------------
(* Inputs: requirement texts, documents, prompts, files on disk *)

ReqName(i) ==
    IF i = 1 THEN "must have 80% coverage" ELSE "requirement " \o ToString(i)

\* the list of the first n requirement texts
ReqPrefix(n) == [i \in 1..n |-> ReqName(i)]

ReqLists ==
    {ReqPrefix(n) : n \in {0, 1, MaxReqs - 1, MaxReqs}}
        \cup {<<ReqName(2), ReqName(1)>>}

\* task types a request names: one with persona and fallback guidance, one
\* with persona only, one the code does not know
TaskTypeInputs == {"testing", "documentation", "debugging"}

Prompts ==
    { <<"add tests">>,
      <<>>,
      <<"fix the parser", NL, NL, "Task: keep it short">> }

\* Documents a client posts to /api/user/config: JSON objects shaped as the
\* Configuration record, with any of its fields left out.
DocFull ==
    Obj(<< Member("aws", Obj(<< Member("access_key_id", Str("AKIAEXAMPLE")),
                                Member("secret_access_key", Str("s3cr3t")),
                                Member("region", Str("us-east-1")),
                                Member("model_id", Str("anthropic.claude-3-5-sonnet-20240620-v1:0")) >>)),
           Member("github", Obj(<< Member("token", Str("ghp_x")),
                                   Member("default_repo", Str("")) >>)),
           Member("non_functional_requirements",
                  Obj(<< Member("testing", StrList(ReqPrefix(1))),
                         Member("debugging", StrList(<<ReqName(2), ReqName(1)>>)) >>)),
           Member("preferences", Obj(<< Member("default_task_type", Str("testing")),
                                        Member("include_context_by_default", JTrue) >>)) >>)

\* a repository, as the URL a request or the stored github.default_repo names it
DefaultRepo == "https://github.com/acme/app"

DocLong ==
    Obj(<< Member("non_functional_requirements",
                  Obj(<< Member("documentation", StrList(ReqPrefix(MaxReqs))),
                         Member("testing", StrList(<<>>)) >>)),
           Member("github", Obj(<< Member("default_repo", Str(DefaultRepo)) >>)) >>)

DocNoRequirements ==
    Obj(<< Member("aws", Obj(<< Member("region", Str("eu-west-1")) >>)) >>)

DocEmpty == Obj(<<>>)

Documents == {DocFull, DocLong, DocNoRequirements, DocEmpty}

\* The files on the local disk that build_prompt may be pointed at.
\* "" is the path of a selected file given without a 'path' key.
Paths == {"src/app.py", "data/cap.bin", "data/big.bin", "gone.txt", "secret.key", ""}

Disk(path) ==
    CASE path = "src/app.py" ->
            [exists |-> TRUE, size |-> 12, readable |-> TRUE,
             content |-> <<"print('hi')">>]
      [] path = "data/cap.bin" ->
            [exists |-> TRUE, size |-> MaxFileSize, readable |-> TRUE,
             content |-> <<"cap bytes">>]
      [] path = "data/big.bin" ->
            [exists |-> TRUE, size |-> MaxFileSize + 1, readable |-> TRUE,
             content |-> <<"big bytes">>]
      [] path = "secret.key" ->
            [exists |-> TRUE, size |-> 12, readable |-> FALSE,
             content |-> <<"key bytes">>]
      [] OTHER ->
            [exists |-> FALSE, size |-> 0, readable |-> FALSE, content |-> <<>>]

RECURSIVE SeqsUpTo(_, _)
\* the sequences over S of length at most n
SeqsUpTo(S, n) ==
    IF n = 0 THEN {<<>>}
    ELSE LET shorter == SeqsUpTo(S, n - 1)
         IN  shorter \cup {Append(q, x) : q \in shorter, x \in S}

\* selections of three files, the middle one not inlinable: over the cap,
\* missing, or unreadable
SkippedBetween ==
    {<<a, x, b>> : a \in {"src/app.py", "data/cap.bin"},
                   x \in {"data/big.bin", "gone.txt", "secret.key"},
                   b \in {"src/app.py", "data/cap.bin"}}

SelectedFilesInputs == SeqsUpTo(Paths, MaxFiles) \cup SkippedBetween

----------------------------------------------------------------------------
(* Requests and responses *)

NoCall == [ok |-> FALSE, text |-> <<>>]

\* A request with what it observed of its environment. The fields a route
\* does not read keep these values.
BlankReq ==
    [ route |-> "",
      prompt |-> <<>>,
      task_type |-> "",
      selected_files |-> <<>>,
      include_context |-> FALSE,
      include_requirements |-> FALSE,
      doc |-> JNull,                 \* the posted JSON body
      has_requirements |-> FALSE,    \* whether the body has 'requirements'
      requirements |-> <<>>,
      io_ok |-> TRUE,                \* whether open(config_path, 'w') succeeds
      access_key_id |-> FALSE,       \* whether AWS_ACCESS_KEY_ID is set
      secret_access_key |-> FALSE,   \* whether AWS_SECRET_ACCESS_KEY is set
      enhance_reply |-> NoCall,      \* what the model endpoint answers
      extract_reply |-> NoCall,
      repo_url |-> "",
      file_path |-> "",
      test_repo |-> "",
      github_token |-> "",           \* "" when neither request nor env has one
      upstream_ok |-> TRUE ]         \* whether the GitHub / Bedrock call succeeds

\* A response: the status, the keys of the JSON body and their values. A
\* key outside `keys` is absent from the body. calls and
\* relevant_requirements are the handler's locals, kept for inspection.
BlankResp ==
    [ route |-> "",
      status |-> 0,
      keys |-> {},
      success |-> FALSE,
      error |-> "",
      final_prompt |-> <<>>,
      context_included |-> FALSE,
      requirements_included |-> FALSE,
      files_processed |-> 0,
      requirements_applied |-> 0,
      enhanced_prompt |-> <<>>,
      ai_enhanced |-> FALSE,
      fallback_used |-> FALSE,
      config |-> JNull,
      requirements |-> JNull,
      calls |-> <<>>,
      relevant_requirements |-> <<>>,
      connected |-> FALSE,
      github_calls |-> <<>> ]        \* the calls made to the GitHub client

\* jsonify({'success': False, 'error': str(e)}), 500
ErrorResp(route, status, error) ==
    [BlankResp EXCEPT !.route = route, !.status = status,
                      !.keys = {"success", "error"}, !.error = error]

----------------------------------------------------------------------------
(* The config store *)

NoFile == [exists |-> FALSE, text |-> <<>>]

\* the document get_user_config returns when the file does not exist
DefaultUserConfig ==
    Obj(<< Member("aws", Obj(<< Member("access_key_id", Str("")),
                                Member("secret_access_key", Str("")),
                                Member("region", Str("us-east-1")) >>)),
           Member("github", Obj(<< Member("token", Str("")),
                                   Member("default_repo", Str("")) >>)),
           Member("preferences", Obj(<< Member("default_task_type", Str("development")),
                                        Member("include_context_by_default", JTrue),
                                        Member("include_requirements_by_default", JTrue) >>)) >>)

\* config_service.get_config(): the stored document, the default one when
\* the file is absent
GetConfig(file) ==
    IF file.exists THEN JsonLoads(file.text).v ELSE DefaultUserConfig

\* the lookup falling back to the first stored list for an unknown task type
RequirementsForFirstList(config, task_type) ==
    LET nfr == DictGet(config, "non_functional_requirements", Obj(<<>>))
        lst == IF HasKey(nfr, task_type) \/ nfr.items = <<>>
               THEN DictGet(nfr, task_type, Arr(<<>>))
               ELSE nfr.items[1].items[1]
    IN  [i \in 1..Len(lst.items) |-> lst.items[i].s]

\* config.get('non_functional_requirements', {}).get(task_type, []), as a
\* sequence of requirement texts
RequirementsFor(config, task_type) ==
    LET nfr == DictGet(config, "non_functional_requirements", Obj(<<>>))
        lst == DictGet(nfr, task_type, Arr(<<>>))
    IN  [i \in 1..Len(lst.items) |-> lst.items[i].s]

\* the requirement list stored for a task type
StoredRequirements(task_type) == RequirementsFor(GetConfig(configFile), task_type)

\* config_service.update_requirements(task_type, requirements): the stored
\* document with the list of task_type replaced
WithRequirements(config, task_type, requirements) ==
    LET nfr == DictGet(config, "non_functional_requirements", Obj(<<>>))
    IN  DictSet(config, "non_functional_requirements",
                DictSet(nfr, task_type, StrList(requirements)))

----------------------------------------------------------------------------
(* /api/prompt/build *)

\* task_contexts: the persona sentence of each recognised task type
TaskContexts ==
    [ development |-> "You are a senior software developer. Focus on writing clean, maintainable, and efficient code.",
      refactoring |-> "You are a code refactoring expert. Focus on improving code structure, readability, and performance.",
      testing |-> "You are a testing specialist. Focus on comprehensive test coverage and quality assurance.",
      documentation |-> "You are a technical writer. Focus on clear, comprehensive documentation.",
      review |-> "You are a code reviewer. Focus on identifying issues, improvements, and best practices." ]

\* the size check with the boundary excluded
WithinCapStrict(size) == size < MaxFileSize

\* file_size <= max_file_size
WithinCap(size) == size <= MaxFileSize

\* f"File: {file_path}\n{content}\n"
FileBlock(path) == <<"File: ", path, NL>> \o Disk(path).content \o <<NL>>

\* whether the loop body appends the file: it exists, is within the cap and
\* open/read does not raise (a raise is caught per file)
Inlined(path) ==
    /\ Disk(path).exists
    /\ WithinCap(Disk(path).size)
    /\ Disk(path).readable

RECURSIVE ContextPartsStopAtSkip(_)
\* the loop leaving at the first file it cannot inline
ContextPartsStopAtSkip(files) ==
    IF files = <<>> \/ ~Inlined(Head(files)) THEN <<>>
    ELSE <<FileBlock(Head(files))>> \o ContextPartsStopAtSkip(Tail(files))

RECURSIVE ContextParts(_)
\* context_parts after the loop over selected_files
ContextParts(files) ==
    IF files = <<>> THEN <<>>
    ELSE (IF Inlined(Head(files)) THEN <<FileBlock(Head(files))>> ELSE <<>>)
         \o ContextParts(Tail(files))

\* context_text
ContextText(include_context, files) ==
    IF include_context /\ files # <<>>
    THEN Join(ContextParts(files), <<NL>>)
    ELSE <<>>

\* "\n".join(f"- {req}" for req in reqs)
Bullets(reqs) == Join([i \in 1..Len(reqs) |-> <<"- ", reqs[i]>>], <<NL>>)

\* f"Non-functional requirements for {task_type}:\n" + the bullets
RequirementsText(task_type, reqs) ==
    <<"Non-functional requirements for ", task_type, ":", NL>> \o Bullets(reqs)

\* the sections joined by a line break only
SingleNewline == <<NL>>

\* the separator of "\n\n".join(final_prompt_parts)
SectionSeparator == <<NL, NL>>

\* final_prompt_parts with the file-context section appended unguarded
FinalPromptPartsContextAlways(prompt, task_type, requirements_list, context_text) ==
    (IF task_type \in DOMAIN TaskContexts THEN << <<TaskContexts[task_type]>> >> ELSE <<>>)
    \o << <<"Task: ">> \o prompt >>
    \o (IF requirements_list # <<>>
        THEN <<RequirementsText(task_type, requirements_list)>> ELSE <<>>)
    \o << <<"Context from selected files:", NL>> \o context_text >>

\* final_prompt_parts with the requirements section appended unguarded
FinalPromptPartsRequirementsAlways(prompt, task_type, requirements_list, context_text) ==
    (IF task_type \in DOMAIN TaskContexts THEN << <<TaskContexts[task_type]>> >> ELSE <<>>)
    \o << <<"Task: ">> \o prompt >>
    \o <<RequirementsText(task_type, requirements_list)>>
    \o (IF context_text # <<>>
        THEN << <<"Context from selected files:", NL>> \o context_text >> ELSE <<>>)

\* final_prompt_parts with the developer persona for an unknown task type
FinalPromptPartsDefaultPersona(prompt, task_type, requirements_list, context_text) ==
    << <<TaskContexts[IF task_type \in DOMAIN TaskContexts
                      THEN task_type ELSE "development"]>> >>
    \o << <<"Task: ">> \o prompt >>
    \o (IF requirements_list # <<>>
        THEN <<RequirementsText(task_type, requirements_list)>> ELSE <<>>)
    \o (IF context_text # <<>>
        THEN << <<"Context from selected files:", NL>> \o context_text >> ELSE <<>>)

\* final_prompt_parts
FinalPromptParts(prompt, task_type, requirements_list, context_text) ==
    (IF task_type \in DOMAIN TaskContexts THEN << <<TaskContexts[task_type]>> >> ELSE <<>>)
    \o << <<"Task: ">> \o prompt >>
    \o (IF requirements_list # <<>>
        THEN <<RequirementsText(task_type, requirements_list)>> ELSE <<>>)
    \o (IF context_text # <<>>
        THEN << <<"Context from selected files:", NL>> \o context_text >> ELSE <<>>)

\* the response of build_prompt to request r with the config file as it is
BuildPromptResponse(r, file) ==
    LET requirements_list ==
            IF r.include_requirements
            THEN RequirementsFor(GetConfig(file), r.task_type) ELSE <<>>
        context_text == ContextText(r.include_context, r.selected_files)
        parts == FinalPromptParts(r.prompt, r.task_type, requirements_list, context_text)
    IN  [BlankResp EXCEPT
            !.route = "build", !.status = 200,
            !.keys = {"success", "final_prompt", "context_included",
                      "requirements_included", "files_processed",
                      "requirements_applied"},
            !.success = TRUE,
            !.final_prompt = Join(parts, SectionSeparator),
            !.context_included = r.include_context /\ context_text # <<>>,
            !.requirements_included = r.include_requirements /\ requirements_list # <<>>,
            !.files_processed = IF r.include_context THEN Len(r.selected_files) ELSE 0,
            !.requirements_applied = Len(requirements_list)]

BuildPrompt ==
    /\ pc = "idle"
    /\ \E prompt \in Prompts, task_type \in TaskTypeInputs,
          files \in SelectedFilesInputs,
          include_context \in BOOLEAN, include_requirements \in BOOLEAN :
            LET r == [BlankReq EXCEPT
                        !.route = "build", !.prompt = prompt,
                        !.task_type = task_type, !.selected_files = files,
                        !.include_context = include_context,
                        !.include_requirements = include_requirements]
            IN  /\ req' = r
                /\ resp' = BuildPromptResponse(r, configFile)
    /\ pc' = "responded"
    /\ UNCHANGED <<configFile, lastPosted, githubClient, workers, finished>>

----------------------------------------------------------------------------
(* /api/user/config and /api/requirements *)

\* a dict with the keys of `defaults` it lacks added ({**defaults, **d})
MergedOver(defaults, d) ==
    Obj([j \in 1..Len(defaults.items) |->
            IF HasKey(d, defaults.items[j].s)
            THEN Member(defaults.items[j].s, DictGet(d, defaults.items[j].s, JNull))
            ELSE defaults.items[j]]
        \o SelectSeq(d.items, LAMBDA m : ~HasKey(defaults, m.s)))

\* get_user_config filling a stored document up with the default fields
UserConfigMerged(file) ==
    IF ~file.exists THEN ParseOk(DefaultUserConfig, 0)
    ELSE LET loaded == JsonLoads(file.text) IN
         IF loaded.ok THEN ParseOk(MergedOver(DefaultUserConfig, loaded.v), 0)
         ELSE loaded

\* the document get_user_config reads: json.load of the file, the default
\* document when the file does not exist; ok is FALSE when json.load raises
UserConfig(file) ==
    IF ~file.exists THEN ParseOk(DefaultUserConfig, 0) ELSE JsonLoads(file.text)

\* get_user_config
GetUserConfig ==
    /\ pc = "idle"
    /\ req' = [BlankReq EXCEPT !.route = "get_config"]
    /\ resp' =
        LET loaded == UserConfig(configFile) IN
        IF loaded.ok
        THEN [BlankResp EXCEPT !.route = "get_config", !.status = 200,
                               !.keys = {"success", "config"},
                               !.success = TRUE, !.config = loaded.v]
        ELSE ErrorResp("get_config", 500, "JSONDecodeError")
    /\ pc' = "responded"
    /\ UNCHANGED <<configFile, lastPosted, githubClient, workers, finished>>

\* update_user_config: open(config_path, 'w') and json.dump(data, f, indent=2)
UpdateUserConfig ==
    /\ pc = "idle"
    /\ \E doc \in Documents, io_ok \in BOOLEAN :
        /\ req' = [BlankReq EXCEPT !.route = "post_config", !.doc = doc,
                                   !.io_ok = io_ok]
        /\ IF io_ok
           THEN /\ configFile' = [exists |-> TRUE, text |-> JsonDump(doc)]
                /\ lastPosted' = [some |-> TRUE, doc |-> doc]
                /\ resp' = [BlankResp EXCEPT !.route = "post_config", !.status = 200,
                                             !.keys = {"success", "message"},
                                             !.success = TRUE]
           ELSE /\ resp' = ErrorResp("post_config", 500, "OSError")
                /\ UNCHANGED <<configFile, lastPosted>>
    /\ pc' = "responded"
    /\ UNCHANGED <<githubClient, workers, finished>>

\* handle_requirements, POST
UpdateRequirements ==
    /\ pc = "idle"
    /\ \E task_type \in {"", "testing"}, has_requirements \in BOOLEAN,
          requirements \in ReqLists :
        /\ has_requirements \/ requirements = <<>>
        /\ req' = [BlankReq EXCEPT !.route = "post_requirements",
                                   !.task_type = task_type,
                                   !.has_requirements = has_requirements,
                                   !.requirements = requirements]
        /\ IF task_type = "" \/ ~has_requirements
           THEN /\ resp' = ErrorResp("post_requirements", 400,
                                     "Task type and requirements are required")
                /\ UNCHANGED <<configFile, lastPosted>>
           ELSE LET updated == WithRequirements(GetConfig(configFile),
                                                task_type, requirements)
                IN  /\ configFile' = [exists |-> TRUE, text |-> JsonDump(updated)]
                    /\ lastPosted' = [some |-> FALSE, doc |-> JNull]
                    /\ resp' = [BlankResp EXCEPT
                                    !.route = "post_requirements", !.status = 200,
                                    !.keys = {"success", "requirements"},
                                    !.success = TRUE,
                                    !.requirements =
                                        DictGet(updated, "non_functional_requirements", Obj(<<>>))]
    /\ pc' = "responded"
    /\ UNCHANGED <<githubClient, workers, finished>>

----------------------------------------------------------------------------
(* The Bedrock adapter *)

\* What the model endpoint may answer to the enhancement call: a failure
\* (ClientError, no credentials accepted, a malformed body), or a text.
EnhanceReplies ==
    { [ok |-> FALSE, text |-> <<>>],
      [ok |-> TRUE, text |-> <<"Objective: a full specification">>],
      [ok |-> TRUE, text |-> <<NL, " ", "Objective: a full specification", NL>>],
      [ok |-> TRUE, text |-> <<>>] }

\* What it may answer to the extraction call, each with the shape of the
\* answer ("failed": the call raised; "invalid": not JSON; "nonarray": JSON
\* but no array; "array") and, for an array, the list it denotes.
ExtractCases ==
    { [reply |-> [ok |-> FALSE, text |-> <<>>],
       shape |-> "failed", list |-> <<>>],
      [reply |-> [ok |-> TRUE, text |-> <<LBracket, RBracket>>],
       shape |-> "array", list |-> <<>>],
      [reply |-> [ok |-> TRUE, text |-> <<LBracket, StrTok(ReqName(1)), RBracket>>],
       shape |-> "array", list |-> <<ReqName(1)>>],
      [reply |-> [ok |-> TRUE,
                  text |-> <<Newline, LBracket, StrTok(ReqName(2)), Comma, Space,
                             StrTok(ReqName(1)), RBracket, Newline>>],
       shape |-> "array", list |-> <<ReqName(2), ReqName(1)>>],
      [reply |-> [ok |-> TRUE, text |-> <<LBracket, StrTok("use TLS everywhere"), RBracket>>],
       shape |-> "array", list |-> <<"use TLS everywhere">>],
      [reply |-> [ok |-> TRUE,
                  text |-> <<Word("Here"), Word("you"), Word("go"), Colon, Space,
                             LBracket, StrTok(ReqName(1)), RBracket>>],
       shape |-> "invalid", list |-> <<>>],
      [reply |-> [ok |-> TRUE, text |-> <<LBracket, StrTok(ReqName(1)), Comma, RBracket>>],
       shape |-> "invalid", list |-> <<>>],
      [reply |-> [ok |-> TRUE, text |-> <<>>],
       shape |-> "invalid", list |-> <<>>],
      [reply |-> [ok |-> TRUE,
                  text |-> <<LBrace, StrTok("relevant"), Colon, Space, LBracket,
                             StrTok(ReqName(1)), RBracket, RBrace>>],
       shape |-> "nonarray", list |-> <<>>],
      [reply |-> [ok |-> TRUE, text |-> <<StrTok(ReqName(1))>>],
       shape |-> "nonarray", list |-> <<>>] }

ExtractReplies == {c.reply : c \in ExtractCases}

\* the credential check with the secret key forgotten
CredentialsFoundKeyIdOnly(r) == r.access_key_id

\* _initialize_client: whether both credentials are found (else it raises)
CredentialsFound(r) == r.access_key_id /\ r.secret_access_key

\* BedrockService.enhance_prompt: the stripped model text, the user's
\* prompt when invoke_claude raises
AdapterEnhancePrompt(user_prompt, reply) ==
    IF reply.ok THEN Strip(reply.text) ELSE user_prompt

RECURSIVE LStripJson(_)
LStripJson(toks) ==
    IF toks # <<>> /\ Head(toks).t = "ws" THEN LStripJson(Tail(toks)) ELSE toks

RECURSIVE RStripJson(_)
RStripJson(toks) ==
    IF toks # <<>> /\ toks[Len(toks)].t = "ws"
    THEN RStripJson(SubSeq(toks, 1, Len(toks) - 1)) ELSE toks

\* result.strip() on the model's answer
StripJson(toks) == RStripJson(LStripJson(toks))

\* extract_relevant_requirements giving up with no requirement at all
ExtractOrNothing(all_requirements, reply) ==
    IF ~reply.ok THEN <<>>
    ELSE LET parsed == JsonLoads(StripJson(reply.text)) IN
         IF parsed.ok /\ parsed.v.k = "arr"
         THEN [i \in 1..Len(parsed.v.items) |-> parsed.v.items[i].s]
         ELSE <<>>

\* BedrockService.extract_relevant_requirements
ExtractRelevantRequirements(all_requirements, reply) ==
    IF ~reply.ok THEN all_requirements
    ELSE LET parsed == JsonLoads(StripJson(reply.text)) IN
         IF ~parsed.ok THEN all_requirements
         ELSE IF parsed.v.k = "arr"
              THEN [i \in 1..Len(parsed.v.items) |-> parsed.v.items[i].s]
              ELSE all_requirements

----------------------------------------------------------------------------
(* /api/prompt/enhance *)

\* task_guidance with bullets for the documentation type as well
TaskGuidanceWithDocumentation ==
    [ development |-> << "Consider error handling and edge cases" >>,
      refactoring |-> << "Identify code smells and anti-patterns" >>,
      testing |-> << "Create comprehensive test cases including edge cases" >>,
      documentation |-> << "Write for the reader" >> ]

\* task_guidance of the fallback
TaskGuidance ==
    [ development |-> << "Consider error handling and edge cases",
                         "Follow coding best practices and design patterns",
                         "Include appropriate comments and documentation",
                         "Consider performance and scalability" >>,
      refactoring |-> << "Identify code smells and anti-patterns",
                         "Improve code organization and modularity",
                         "Enhance readability and maintainability",
                         "Optimize performance where possible" >>,
      testing |-> << "Create comprehensive test cases including edge cases",
                     "Follow testing best practices (AAA pattern, etc.)",
                     "Include both unit and integration tests",
                     "Consider test coverage and quality metrics" >> ]

\* the fallback appending the whole stored list
FallbackRequirementsUncut(requirements) == requirements

\* requirements[:5]
FallbackRequirements(requirements) ==
    SubSeq(requirements, 1,
           IF Len(requirements) < FallbackLimit THEN Len(requirements) ELSE FallbackLimit)

EnhanceKeys ==
    {"success", "enhanced_prompt", "original_prompt", "task_type",
     "requirements_applied", "ai_enhanced"}

\* the invocations with a failed one made a second time
ModelCallsRetrying(r, requirements) ==
    LET once == <<[op |-> "enhance", ok |-> r.enhance_reply.ok]>>
                \o (IF requirements # <<>>
                    THEN <<[op |-> "extract", ok |-> r.extract_reply.ok]>> ELSE <<>>)
    IN  once \o SelectSeq(once, LAMBDA c : ~c.ok)

\* the invocations of the model endpoint the try block makes: one
\* invoke_claude by enhance_prompt, then one by
\* extract_relevant_requirements when there are requirements; invoke_claude
\* calls invoke_model once, whether it succeeds or raises
ModelCalls(r, requirements) ==
    <<[op |-> "enhance", ok |-> r.enhance_reply.ok]>>
    \o (IF requirements # <<>>
        THEN <<[op |-> "extract", ok |-> r.extract_reply.ok]>>
        ELSE <<>>)

\* the try block: the adapter is constructed and both calls return
PrimaryEnhance(r, requirements) ==
    LET enhanced == AdapterEnhancePrompt(r.prompt, r.enhance_reply)
        relevant == IF requirements # <<>>
                    THEN ExtractRelevantRequirements(requirements, r.extract_reply)
                    ELSE <<>>
        with_reqs == IF relevant # <<>>
                     THEN enhanced \o <<NL, NL>> \o RequirementsText(r.task_type, relevant)
                     ELSE enhanced
        with_files == IF r.selected_files # <<>>
                      THEN with_reqs \o <<NL, NL, "Context: This request relates to ",
                                          ToString(Len(r.selected_files)),
                                          " selected file(s). Please consider the file structure and content when providing your response.">>
                      ELSE with_reqs
    IN  [BlankResp EXCEPT
            !.route = "enhance", !.status = 200, !.keys = EnhanceKeys,
            !.success = TRUE,
            !.enhanced_prompt = with_files,
            !.requirements_applied = Len(relevant),
            !.ai_enhanced = TRUE,
            !.relevant_requirements = relevant,
            !.calls = ModelCalls(r, requirements)]

\* the except block answering with the flags of the try block
FallbackEnhanceFlaggedAI(r, requirements) ==
    LET with_guidance ==
            IF r.task_type \in DOMAIN TaskGuidance
            THEN r.prompt \o <<NL, NL, "Additional considerations:", NL>>
                          \o Bullets(TaskGuidance[r.task_type])
            ELSE r.prompt
        with_reqs ==
            IF requirements # <<>>
            THEN with_guidance \o <<NL, NL>>
                 \o RequirementsText(r.task_type, FallbackRequirements(requirements))
            ELSE with_guidance
    IN  [BlankResp EXCEPT
            !.route = "enhance", !.status = 200, !.keys = EnhanceKeys,
            !.success = TRUE,
            !.enhanced_prompt = with_reqs,
            !.requirements_applied =
                IF Len(requirements) < FallbackLimit
                THEN Len(requirements) ELSE FallbackLimit,
            !.ai_enhanced = TRUE]

\* the except block: the basic enhancement
FallbackEnhance(r, requirements) ==
    LET with_guidance ==
            IF r.task_type \in DOMAIN TaskGuidance
            THEN r.prompt \o <<NL, NL, "Additional considerations:", NL>>
                          \o Bullets(TaskGuidance[r.task_type])
            ELSE r.prompt
        with_reqs ==
            IF requirements # <<>>
            THEN with_guidance \o <<NL, NL>>
                 \o RequirementsText(r.task_type, FallbackRequirements(requirements))
            ELSE with_guidance
    IN  [BlankResp EXCEPT
            !.route = "enhance", !.status = 200,
            !.keys = EnhanceKeys \cup {"fallback_used"},
            !.success = TRUE,
            !.enhanced_prompt = with_reqs,
            !.requirements_applied =
                IF requirements # <<>>
                THEN (IF Len(requirements) < FallbackLimit
                      THEN Len(requirements) ELSE FallbackLimit)
                ELSE 0,
            !.ai_enhanced = FALSE,
            !.fallback_used = TRUE]

\* the response of enhance_prompt to request r with the config file as it is
EnhancePromptResponse(r, file) ==
    LET requirements == RequirementsFor(GetConfig(file), r.task_type) IN
    IF CredentialsFound(r)
    THEN PrimaryEnhance(r, requirements)
    ELSE FallbackEnhance(r, requirements)

\* the task types of an enhance request: the three with fallback guidance,
\* the two with a persona only, one the code does not know
EnhanceTaskTypeInputs ==
    TaskTypeInputs \cup {"development", "refactoring", "review"}

\* the selected_files of an enhance request: only their number is read
EnhanceFilesInputs == SeqsUpTo({"src/app.py"}, MaxFiles)

EnhancePrompt ==
    /\ pc = "idle"
    /\ \E prompt \in Prompts, task_type \in EnhanceTaskTypeInputs,
          files \in EnhanceFilesInputs,
          access_key_id \in BOOLEAN, secret_access_key \in BOOLEAN :
         \E enhance_reply \in
                (IF access_key_id /\ secret_access_key
                 THEN EnhanceReplies ELSE {NoCall}),
            extract_reply \in
                (IF access_key_id /\ secret_access_key
                    /\ StoredRequirements(task_type) # <<>>
                 THEN ExtractReplies ELSE {NoCall}) :
            LET r == [BlankReq EXCEPT
                        !.route = "enhance", !.prompt = prompt,
                        !.task_type = task_type, !.selected_files = files,
                        !.access_key_id = access_key_id,
                        !.secret_access_key = secret_access_key,
                        !.enhance_reply = enhance_reply,
                        !.extract_reply = extract_reply]
            IN  /\ req' = r
                /\ resp' = EnhancePromptResponse(r, configFile)
    /\ pc' = "responded"
    /\ UNCHANGED <<configFile, lastPosted, githubClient, workers, finished>>

----------------------------------------------------------------------------
(* The GitHub client *)

\* the token of a request: github_token of the body, else the one of the
\* environment; "" when there is neither
GithubTokens == {"", "ghp_a", "ghp_b"}

\* GitHubService(): the client made at import, before any set_token
NewGitHubService == [token |-> ""]

\* github_service.set_token(token)
SetToken(client, token) == [client EXCEPT !.token = token]

\* a call made to GitHub, with the token it is made under
GithubCall(op, token) == [op |-> op, token |-> token]

\* the repository test_github_connection tests: test_repo of the request,
\* else github.default_repo of the stored configuration
TestRepo(r, file) ==
    IF r.test_repo # "" THEN r.test_repo
    ELSE DictGet(DictGet(GetConfig(file), "github", Obj(<<>>)),
                 "default_repo", Str("")).s

----------------------------------------------------------------------------
(* The route layer *)

\* jsonify({'connected': False, 'error': ...}), status
NotConnectedResp(route, status, error) ==
    [BlankResp EXCEPT !.route = route, !.status = status,
                      !.keys = {"connected", "error"}, !.error = error]

\* health_check
HealthCheck ==
    /\ pc = "idle"
    /\ req' = [BlankReq EXCEPT !.route = "health"]
    /\ resp' = [BlankResp EXCEPT !.route = "health", !.status = 200,
                                 !.keys = {"status", "service"}]
    /\ pc' = "responded"
    /\ UNCHANGED <<configFile, lastPosted, githubClient, workers, finished>>

\* test_bedrock_connection; model_id always has its hardcoded default
TestBedrockConnectionResponse(r) ==
    IF ~(r.access_key_id /\ r.secret_access_key)
    THEN NotConnectedResp("bedrock_test", 400,
                          "Missing required AWS credentials or model ID")
    ELSE IF r.upstream_ok
    THEN [BlankResp EXCEPT !.route = "bedrock_test", !.status = 200,
                           !.keys = {"connected", "message"},
                           !.connected = TRUE]
    ELSE NotConnectedResp("bedrock_test", 401, "Invalid AWS credentials")

TestBedrockConnection ==
    /\ pc = "idle"
    /\ \E access_key_id \in BOOLEAN, secret_access_key \in BOOLEAN,
          upstream_ok \in BOOLEAN :
        LET r == [BlankReq EXCEPT !.route = "bedrock_test",
                                  !.access_key_id = access_key_id,
                                  !.secret_access_key = secret_access_key,
                                  !.upstream_ok = upstream_ok]
        IN  /\ req' = r
            /\ resp' = TestBedrockConnectionResponse(r)
    /\ pc' = "responded"
    /\ UNCHANGED <<configFile, lastPosted, githubClient, workers, finished>>

\* chat_with_ai
ChatWithAIResponse(r) ==
    IF ~(r.access_key_id /\ r.secret_access_key)
    THEN [BlankResp EXCEPT !.route = "bedrock_chat", !.status = 400,
                           !.keys = {"error"},
                           !.error = "Missing required AWS credentials or model ID"]
    ELSE IF r.upstream_ok
    THEN [BlankResp EXCEPT !.route = "bedrock_chat", !.status = 200,
                           !.keys = {"response", "success"},
                           !.success = TRUE]
    ELSE ErrorResp("bedrock_chat", 500, "AWS Bedrock error")

ChatWithAI ==
    /\ pc = "idle"
    /\ \E access_key_id \in BOOLEAN, secret_access_key \in BOOLEAN,
          upstream_ok \in BOOLEAN :
        LET r == [BlankReq EXCEPT !.route = "bedrock_chat",
                                  !.access_key_id = access_key_id,
                                  !.secret_access_key = secret_access_key,
                                  !.upstream_ok = upstream_ok]
        IN  /\ req' = r
            /\ resp' = ChatWithAIResponse(r)
    /\ pc' = "responded"
    /\ UNCHANGED <<configFile, lastPosted, githubClient, workers, finished>>

\* the client with the token set before the request is validated
RepositoryFilesClientEager(r, client) == SetToken(client, r.github_token)

\* github_service after get_repository_files: set_token is reached only
\* past the check of repo_url
RepositoryFilesClient(r, client) ==
    IF r.repo_url = "" THEN client ELSE SetToken(client, r.github_token)

\* get_repository_files; client is github_service as the handler leaves it
GetRepositoryFilesResponse(r, client) ==
    IF r.repo_url = ""
    THEN ErrorResp("repository_files", 400, "Repository URL is required")
    ELSE LET call == GithubCall("get_repository_files", client.token) IN
         IF r.upstream_ok
         THEN [BlankResp EXCEPT !.route = "repository_files", !.status = 200,
                                !.keys = {"success", "files"},
                                !.success = TRUE, !.github_calls = <<call>>]
         ELSE [ErrorResp("repository_files", 500, "GithubException")
                   EXCEPT !.github_calls = <<call>>]

GetRepositoryFiles ==
    /\ pc = "idle"
    /\ \E repo_url \in {"", DefaultRepo}, github_token \in GithubTokens,
          upstream_ok \in BOOLEAN :
        LET r == [BlankReq EXCEPT !.route = "repository_files",
                                  !.repo_url = repo_url,
                                  !.github_token = github_token,
                                  !.upstream_ok = upstream_ok]
        IN  /\ req' = r
            /\ githubClient' = RepositoryFilesClient(r, githubClient)
            /\ resp' = GetRepositoryFilesResponse(r, githubClient')
    /\ pc' = "responded"
    /\ UNCHANGED <<configFile, lastPosted, workers, finished>>

\* get_file_content: the token goes to the client as an argument
GetFileContentResponse(r) ==
    IF r.repo_url = "" \/ r.file_path = ""
    THEN ErrorResp("file_content", 400,
                   "Repository URL and file path are required")
    ELSE LET call == GithubCall("get_file_content", r.github_token) IN
         IF r.upstream_ok
         THEN [BlankResp EXCEPT !.route = "file_content", !.status = 200,
                                !.keys = {"success", "content"},
                                !.success = TRUE, !.github_calls = <<call>>]
         ELSE [ErrorResp("file_content", 500, "GithubException")
                   EXCEPT !.github_calls = <<call>>]

\* whether github_service.get_file_content keeps the token it is given is
\* not decided by the route: both outcomes are allowed
GetFileContent ==
    /\ pc = "idle"
    /\ \E repo_url \in {"", DefaultRepo}, file_path \in {"", "README.md"},
          github_token \in GithubTokens, upstream_ok \in BOOLEAN :
        LET r == [BlankReq EXCEPT !.route = "file_content",
                                  !.repo_url = repo_url,
                                  !.file_path = file_path,
                                  !.github_token = github_token,
                                  !.upstream_ok = upstream_ok]
        IN  /\ req' = r
            /\ resp' = GetFileContentResponse(r)
            /\ githubClient' \in
                 (IF repo_url = "" \/ file_path = ""
                  THEN {githubClient}
                  ELSE {githubClient, SetToken(githubClient, github_token)})
    /\ pc' = "responded"
    /\ UNCHANGED <<configFile, lastPosted, workers, finished>>

\* github_service after test_github_connection
GithubTestClient(r, file, client) ==
    IF TestRepo(r, file) = "" THEN client ELSE SetToken(client, r.github_token)

\* test_github_connection
TestGithubConnectionResponse(r, file, client) ==
    IF TestRepo(r, file) = ""
    THEN NotConnectedResp("github_test", 400,
                          "No repository specified for testing")
    ELSE LET call == GithubCall("get_repo", client.token) IN
         IF r.upstream_ok
         THEN [BlankResp EXCEPT !.route = "github_test", !.status = 200,
                                !.keys = {"connected", "message", "repository"},
                                !.connected = TRUE, !.github_calls = <<call>>]
         ELSE [NotConnectedResp("github_test", 401,
                                "Invalid GitHub token or insufficient permissions")
                   EXCEPT !.github_calls = <<call>>]

TestGithubConnection ==
    /\ pc = "idle"
    /\ \E test_repo \in {"", DefaultRepo}, github_token \in GithubTokens,
          upstream_ok \in BOOLEAN :
        LET r == [BlankReq EXCEPT !.route = "github_test",
                                  !.test_repo = test_repo,
                                  !.github_token = github_token,
                                  !.upstream_ok = upstream_ok]
        IN  /\ req' = r
            /\ githubClient' = GithubTestClient(r, configFile, githubClient)
            /\ resp' = TestGithubConnectionResponse(r, configFile, githubClient')
    /\ pc' = "responded"
    /\ UNCHANGED <<configFile, lastPosted, workers, finished>>

----------------------------------------------------------------------------
(* Requests served at once *)

\* the threads of the server
Workers == {1, 2}

\* a thread with no request
IdleWorker == [pc |-> "idle", route |-> "", github_token |-> "",
               doc |-> JNull, used |-> "",
               before |-> NoFile,      \* history: the file when a POST arrived
               status |-> 0, config |-> JNull]

\* a thread takes a request: a file listing or a connection test that
\* names a repository, a POST /api/user/config, or a GET /api/user/config
Accept(w) ==
    /\ workers[w].pc = "idle"
    /\ \/ \E route \in {"repository_files", "github_test"},
             github_token \in GithubTokens :
            workers' = [workers EXCEPT ![w] =
                          [IdleWorker EXCEPT !.pc = "validated", !.route = route,
                                             !.github_token = github_token]]
       \/ \E doc \in Documents :
            workers' = [workers EXCEPT ![w] =
                          [IdleWorker EXCEPT !.pc = "received",
                                             !.route = "post_config", !.doc = doc,
                                             !.before = configFile]]
       \/ workers' = [workers EXCEPT ![w] =
                        [IdleWorker EXCEPT !.pc = "reading", !.route = "get_config"]]
    /\ UNCHANGED <<configFile, lastPosted, pc, req, resp, githubClient, finished>>

\* github_service.set_token(github_token), on the client all threads share
WorkerSetToken(w) ==
    /\ workers[w].pc = "validated"
    /\ githubClient' = SetToken(githubClient, workers[w].github_token)
    /\ workers' = [workers EXCEPT ![w].pc = "token_set"]
    /\ UNCHANGED <<configFile, lastPosted, pc, req, resp, finished>>

\* github_service.get_repository_files(repo_url) or
\* github_service.github.get_repo(...): the call goes out under the token
\* the shared client holds when it is made
WorkerGithubCall(w) ==
    /\ workers[w].pc = "token_set"
    /\ workers' = [workers EXCEPT ![w].pc = "done",
                                  ![w].used = githubClient.token]
    /\ finished' = Append(finished, w)
    /\ UNCHANGED <<configFile, lastPosted, pc, req, resp, githubClient>>

\* get_user_config: the file as it is when the thread reads it; json.load
\* raising is answered 500
WorkerRead(w) ==
    /\ workers[w].pc = "reading"
    /\ LET loaded == UserConfig(configFile) IN
        workers' = [workers EXCEPT
                      ![w].pc = "done",
                      ![w].status = IF loaded.ok THEN 200 ELSE 500,
                      ![w].config = IF loaded.ok THEN loaded.v ELSE JNull]
    /\ finished' = Append(finished, w)
    /\ UNCHANGED <<configFile, lastPosted, pc, req, resp, githubClient>>

\* a write of `text` at offset 0 of a file holding `old`: what lies beyond
\* the written part stays
Overwrite(old, text) ==
    text \o SubSeq(old, Len(text) + 1, Len(old))

\* open(config_path, 'w'): the file is created or cut to length 0, and the
\* thread's own file offset is 0
WorkerOpen(w) ==
    /\ workers[w].pc = "received"
    /\ configFile' = [exists |-> TRUE, text |-> <<>>]
    /\ workers' = [workers EXCEPT ![w].pc = "opened"]
    /\ UNCHANGED <<lastPosted, pc, req, resp, githubClient, finished>>

\* json.dump(data, f, indent=2) and the close of the with block: the
\* buffered text is written at the thread's offset, with no second cut
WorkerDump(w) ==
    /\ workers[w].pc = "opened"
    /\ configFile' = [exists |-> TRUE,
                      text |-> Overwrite(configFile.text, JsonDump(workers[w].doc))]
    /\ lastPosted' = [some |-> TRUE, doc |-> workers[w].doc]
    /\ workers' = [workers EXCEPT ![w].pc = "done"]
    /\ finished' = Append(finished, w)
    /\ UNCHANGED <<pc, req, resp, githubClient>>

----------------------------------------------------------------------------

\* the response is returned to the client; the server waits for a request
Return ==
    /\ pc = "responded"
    /\ pc' = "idle"
    /\ req' = BlankReq
    /\ resp' = BlankResp
    /\ UNCHANGED <<configFile, lastPosted, githubClient, workers, finished>>

----------------------------------------------------------------------------

Init ==
    /\ configFile = NoFile
    /\ lastPosted = [some |-> FALSE, doc |-> JNull]
    /\ pc = "idle"
    /\ req = BlankReq
    /\ resp = BlankResp
    /\ githubClient = NewGitHubService
    /\ workers = [w \in Workers |-> IdleWorker]
    /\ finished = <<>>

Next ==
    \/ BuildPrompt
    \/ EnhancePrompt
    \/ GetUserConfig
    \/ UpdateUserConfig
    \/ UpdateRequirements
    \/ Return

Spec == Init /\ [][Next]_vars

\* the routes around the prompt composer, one request at a time
NextRoutes ==
    \/ HealthCheck
    \/ TestBedrockConnection
    \/ ChatWithAI
    \/ GetRepositoryFiles
    \/ GetFileContent
    \/ TestGithubConnection
    \/ GetUserConfig
    \/ UpdateUserConfig
    \/ UpdateRequirements
    \/ Return

SpecRoutes == Init /\ [][NextRoutes]_vars

\* two requests served at once, each by its own thread
NextThreaded ==
    \E w \in Workers :
        \/ Accept(w)
        \/ WorkerSetToken(w)
        \/ WorkerGithubCall(w)
        \/ WorkerOpen(w)
        \/ WorkerDump(w)
        \/ WorkerRead(w)

\* the server starts with no config file, or with one an earlier run wrote
InitThreaded ==
    /\ configFile \in {NoFile} \cup
                      {[exists |-> TRUE, text |-> JsonDump(d)] : d \in Documents}
    /\ lastPosted = [some |-> FALSE, doc |-> JNull]
    /\ pc = "idle"
    /\ req = BlankReq
    /\ resp = BlankResp
    /\ githubClient = NewGitHubService
    /\ workers = [w \in Workers |-> IdleWorker]
    /\ finished = <<>>

SpecThreaded == InitThreaded /\ [][NextThreaded]_vars

----------------------------------------------------------------------------
(* Properties *)

RecognisedTaskTypes ==
    {"development", "refactoring", "testing", "documentation", "review"}

RequirementsHeader == "Non-functional requirements for "
ContextHeader == "Context from selected files:"

\* the selected files of the request, as a set of indices
FileIndices == 1..Len(req.selected_files)

\* C1: an /api/prompt/enhance request made while an AWS credential is
\* missing is answered, not failed: status 200 with success=true,
\* ai_enhanced=false and fallback_used=true, whatever the prompt, the task
\* type and the selected files.
C1_MissingCredentialsFallBack ==
    (resp.route = "enhance" /\ ~(req.access_key_id /\ req.secret_access_key))
        => /\ resp.status = 200
           /\ resp.success
           /\ "ai_enhanced" \in resp.keys /\ ~resp.ai_enhanced
           /\ "fallback_used" \in resp.keys /\ resp.fallback_used

C1_Witness ==
    /\ resp.route = "enhance"
    /\ req.access_key_id /\ ~req.secret_access_key
    /\ req.selected_files # <<>>
    /\ resp.fallback_used

\* C2: whenever a model call of /api/prompt/enhance fails (the enhancement
\* call or the extraction call, on an adapter that was constructed), the
\* response is the fallback one: ai_enhanced=false and fallback_used=true.
C2_FailedCallFallsBack ==
    (resp.route = "enhance" /\ \E i \in 1..Len(resp.calls) : ~resp.calls[i].ok)
        => /\ ~resp.ai_enhanced
           /\ "fallback_used" \in resp.keys /\ resp.fallback_used

\* C3: a GET /api/user/config after a successful POST of document D, with
\* no other write in between, returns success=true and config = D.
C3_ConfigRoundTrip ==
    (resp.route = "get_config" /\ lastPosted.some)
        => /\ resp.status = 200
           /\ resp.success
           /\ resp.config = lastPosted.doc

C3_Witness ==
    /\ resp.route = "get_config"
    /\ lastPosted.some
    /\ lastPosted.doc = DocLong
    /\ resp.config = DocLong

\* C4: with include_context, a selected file larger than the cap leaves no
\* trace in final_prompt (neither its label nor its content) and
\* files_processed is the length of selected_files all the same; a file of
\* exactly the cap that can be read is inlined.
C4_OverCapSkippedButCounted ==
    (resp.route = "build" /\ req.include_context)
        => /\ resp.files_processed = Len(req.selected_files)
           /\ \A i \in FileIndices :
                LET path == req.selected_files[i] IN
                /\ (Disk(path).exists /\ Disk(path).size > MaxFileSizeKB * 1024)
                     => /\ ~Occurs(<<"File: ", path>>, resp.final_prompt)
                        /\ \A j \in 1..Len(Disk(path).content) :
                              ~HasToken(resp.final_prompt, Disk(path).content[j])
                /\ (Disk(path).exists /\ Disk(path).readable
                        /\ Disk(path).size = MaxFileSizeKB * 1024)
                     => Occurs(<<"File: ", path, NL>> \o Disk(path).content \o <<NL>>,
                               resp.final_prompt)

C4_Witness ==
    /\ resp.route = "build"
    /\ req.include_context
    /\ req.selected_files = <<"data/big.bin", "data/cap.bin">>
    /\ resp.files_processed = 2
    /\ HasToken(resp.final_prompt, "cap bytes")

\* C5: with include_context and an empty selected_files, context_included
\* is false and final_prompt has no 'Context from selected files:' section.
C5_NoFilesNoContext ==
    (resp.route = "build" /\ req.include_context /\ req.selected_files = <<>>)
        => /\ "context_included" \in resp.keys /\ ~resp.context_included
           /\ ~HasToken(resp.final_prompt, ContextHeader)

C5_Witness ==
    /\ resp.route = "build"
    /\ req.include_context /\ req.selected_files = <<>>
    /\ resp.success /\ ~resp.context_included

\* C6: for a task type outside the five recognised ones the build succeeds,
\* final_prompt holds no persona sentence and holds 'Task: <prompt>' with
\* the prompt as given.
C6_UnknownTaskTypeNoPersona ==
    (resp.route = "build" /\ req.task_type \notin RecognisedTaskTypes)
        => /\ resp.status = 200 /\ resp.success
           /\ \A t \in DOMAIN TaskContexts :
                ~HasToken(resp.final_prompt, TaskContexts[t])
           /\ IsPrefix(<<"Task: ">> \o req.prompt, resp.final_prompt)

C6_Witness ==
    /\ resp.route = "build"
    /\ req.task_type = "debugging"
    /\ req.prompt = <<"add tests">>
    /\ resp.success

\* the sections C7 expects, each with the separator before it
C7_Expected ==
    LET stored == IF req.include_requirements
                  THEN StoredRequirements(req.task_type) ELSE <<>>
        context == ContextText(req.include_context, req.selected_files)
    IN  (IF req.task_type \in RecognisedTaskTypes
         THEN <<TaskContexts[req.task_type], NL, NL>> ELSE <<>>)
        \o <<"Task: ">> \o req.prompt
        \o (IF stored # <<>>
            THEN <<NL, NL>> \o RequirementsText(req.task_type, stored) ELSE <<>>)
        \o (IF context # <<>>
            THEN <<NL, NL, ContextHeader, NL>> \o context ELSE <<>>)

\* the request of the scenario of C7
C7_Scenario ==
    /\ resp.route = "build"
    /\ req.task_type = "testing"
    /\ req.prompt = <<"add tests">>
    /\ req.selected_files = <<>>
    /\ req.include_requirements
    /\ StoredRequirements("testing") = <<"must have 80% coverage">>

\* C7: final_prompt is the sections present, in the order persona, task,
\* requirements, file context, with exactly one blank line between two of
\* them; the scenario (testing, 'add tests', no files, one requirement)
\* gives the text the specification spells out.
C7_SectionsInOrder ==
    /\ resp.route = "build" => resp.final_prompt = C7_Expected
    /\ C7_Scenario =>
        resp.final_prompt =
            << "You are a testing specialist. Focus on comprehensive test coverage and quality assurance.",
               NL, NL, "Task: ", "add tests",
               NL, NL, "Non-functional requirements for ", "testing", ":", NL,
               "- ", "must have 80% coverage" >>

C7_Witness ==
    /\ C7_Scenario
    /\ Len(resp.final_prompt) = 13

\* C8: no header without content. The requirements header is there exactly
\* when include_requirements holds and the stored list is not empty, and
\* then a bullet follows it; the context header is there exactly when a
\* selected file was inlined, and so is context_included; when every
\* selected file is missing or over the cap, neither is.
C8_NoEmptySection ==
    resp.route = "build" =>
        LET stored == StoredRequirements(req.task_type)
            inlined == \E i \in FileIndices :
                          Occurs(FileBlock(req.selected_files[i]), resp.final_prompt)
        IN  /\ HasToken(resp.final_prompt, RequirementsHeader)
                <=> (req.include_requirements /\ stored # <<>>)
            /\ HasToken(resp.final_prompt, RequirementsHeader)
                => Occurs(<<RequirementsHeader, req.task_type, ":", NL, "- ", stored[1]>>,
                          resp.final_prompt)
            /\ HasToken(resp.final_prompt, ContextHeader) <=> inlined
            /\ resp.context_included <=> inlined
            /\ (\A i \in FileIndices :
                    \/ ~Disk(req.selected_files[i]).exists
                    \/ Disk(req.selected_files[i]).size > MaxFileSizeKB * 1024)
                => /\ ~HasToken(resp.final_prompt, ContextHeader)
                   /\ ~resp.context_included

C8_Witness ==
    /\ resp.route = "build"
    /\ req.include_context /\ req.include_requirements
    /\ req.selected_files = <<"gone.txt", "data/big.bin">>
    /\ StoredRequirements(req.task_type) = <<>>
    /\ ~HasToken(resp.final_prompt, RequirementsHeader)
    /\ ~HasToken(resp.final_prompt, ContextHeader)

\* C9: extract_relevant_requirements returns the list it was given
\* (all_requirements, same elements and order) when the call fails, the
\* answer is no JSON or the JSON is no array, and the parsed array when the
\* answer is a JSON array.
C9_ExtractFallsBackToAll ==
    \A c \in ExtractCases :
        (/\ resp.route = "enhance"
         /\ Len(resp.calls) = 2
         /\ req.extract_reply = c.reply)
            => resp.relevant_requirements =
                 IF c.shape = "array" THEN c.list
                 ELSE StoredRequirements(req.task_type)

C9_Witness ==
    /\ resp.route = "enhance"
    /\ Len(resp.calls) = 2
    /\ \E c \in ExtractCases : c.shape = "invalid" /\ req.extract_reply = c.reply
    /\ Len(resp.relevant_requirements) >= 2
    /\ resp.relevant_requirements = StoredRequirements(req.task_type)

\* the text of enhanced_prompt from its requirements header on
C10_FromHeader ==
    LET text == resp.enhanced_prompt
        at == CHOOSE i \in 1..Len(text) : text[i] = RequirementsHeader
    IN  SubSeq(text, at, Len(text))

\* C10: on the fallback path the requirements appended are the first
\* min(5, n) entries of the stored list, in stored order and nothing else,
\* and requirements_applied is that number, so never more than 5.
C10_FallbackFirstFive ==
    (resp.route = "enhance" /\ resp.fallback_used) =>
        LET stored == StoredRequirements(req.task_type)
            n == Len(stored)
            k == IF n < 5 THEN n ELSE 5
        IN  /\ resp.requirements_applied = k
            /\ resp.requirements_applied <= 5
            /\ n = 0 => ~HasToken(resp.enhanced_prompt, RequirementsHeader)
            /\ n > 0 =>
                /\ Cardinality({i \in 1..Len(resp.enhanced_prompt) :
                                   resp.enhanced_prompt[i] = RequirementsHeader}) = 1
                /\ C10_FromHeader =
                     <<RequirementsHeader, req.task_type, ":", NL>>
                        \o Bullets(SubSeq(stored, 1, k))

C10_Witness ==
    /\ resp.route = "enhance"
    /\ resp.fallback_used
    /\ Len(StoredRequirements(req.task_type)) > 5
    /\ resp.requirements_applied = 5

\* the stored mapping from task type to requirement list
C13_StoredMapping ==
    DictGet(GetConfig(configFile), "non_functional_requirements", Obj(<<>>))

\* C11: on the fallback path enhanced_prompt starts with the prompt as
\* given, and the 'Additional considerations:' bullets follow it exactly
\* when task_type is development, refactoring or testing; documentation,
\* review and unknown types get none.
C11_FallbackGuidance ==
    (resp.route = "enhance" /\ resp.fallback_used) =>
        /\ IsPrefix(req.prompt, resp.enhanced_prompt)
        /\ HasToken(resp.enhanced_prompt, "Additional considerations:")
            <=> req.task_type \in {"development", "refactoring", "testing"}
        /\ HasToken(resp.enhanced_prompt, "Additional considerations:")
            => IsPrefix(req.prompt \o <<NL, NL, "Additional considerations:", NL, "- ">>,
                        resp.enhanced_prompt)
        /\ req.task_type \notin {"development", "refactoring", "testing"}
            => \A i \in 1..Len(resp.enhanced_prompt) :
                  \A t \in DOMAIN TaskGuidance :
                     \A j \in 1..Len(TaskGuidance[t]) :
                        resp.enhanced_prompt[i] # TaskGuidance[t][j]

C11_Witness ==
    /\ resp.route = "enhance"
    /\ resp.fallback_used
    /\ req.task_type = "documentation"
    /\ req.prompt = <<"add tests">>
    /\ resp.enhanced_prompt = <<"add tests">>

\* C12: a successful enhance response tells the two paths apart:
\* ai_enhanced=true exactly when the adapter was constructed (the primary
\* path), ai_enhanced=false with fallback_used=true exactly when it was not
\* (the fallback path), and never ai_enhanced=true with fallback_used=true.
C12_FlagTellsPath ==
    (resp.route = "enhance" /\ resp.success) =>
        LET primary == req.access_key_id /\ req.secret_access_key
            fallback_flag == "fallback_used" \in resp.keys /\ resp.fallback_used
        IN  /\ "ai_enhanced" \in resp.keys
            /\ resp.ai_enhanced <=> primary
            /\ (~resp.ai_enhanced /\ fallback_flag) <=> ~primary
            /\ ~(resp.ai_enhanced /\ fallback_flag)

C12_Witness ==
    /\ resp.route = "enhance"
    /\ resp.success
    /\ resp.ai_enhanced
    /\ "fallback_used" \notin resp.keys
    /\ req.enhance_reply.ok
    /\ resp.enhanced_prompt # req.prompt

\* C13: for a task type with no entry in the stored mapping, build and
\* enhance take the requirement list to be empty: success=true,
\* requirements_applied=0 and no requirements section, never an error.
C13_UnknownTaskTypeNoRequirements ==
    (resp.route \in {"build", "enhance"} /\ ~HasKey(C13_StoredMapping, req.task_type))
        => /\ resp.status = 200
           /\ resp.success
           /\ resp.requirements_applied = 0
           /\ ~HasToken(resp.final_prompt, RequirementsHeader)
           /\ ~HasToken(resp.enhanced_prompt, RequirementsHeader)

C13_Witness ==
    /\ resp.route = "enhance"
    /\ req.task_type = "debugging"
    /\ req.access_key_id /\ req.secret_access_key
    /\ C13_StoredMapping.items # <<>>
    /\ ~HasKey(C13_StoredMapping, "debugging")
    /\ resp.success /\ resp.requirements_applied = 0

\* the number of invocations of the model endpoint for one operation
C18_Count(op) ==
    Cardinality({i \in 1..Len(resp.calls) : resp.calls[i].op = op})

\* C18: one enhance request invokes the model endpoint at most once for
\* the enhancement and at most once for the extraction (not at all for the
\* extraction when the stored list is empty, and not at all on the
\* fallback path); a failed invocation is not made again.
C18_NoRetry ==
    resp.route = "enhance" =>
        /\ C18_Count("enhance") <= 1
        /\ C18_Count("extract") <= 1
        /\ Len(resp.calls) <= 2
        /\ StoredRequirements(req.task_type) = <<>> => C18_Count("extract") = 0
        /\ resp.fallback_used => resp.calls = <<>>

C18_Witness ==
    /\ resp.route = "enhance"
    /\ Len(resp.calls) = 2
    /\ ~resp.calls[1].ok
    /\ ~resp.calls[2].ok

\* whether the stored document holds a non-empty aws.<field>
C19_InConfigFile(field) ==
    LET aws == DictGet(GetConfig(configFile), "aws", Obj(<<>>))
    IN  DictGet(aws, field, Str("")).s # ""

\* C19: constructing the adapter raises (and only then is the fallback
\* taken) exactly when the access key id or the secret key is resolved
\* neither from the config file nor, failing that, from the environment;
\* credentials in the config file alone are enough.
C19_ConfigFileThenEnvironment ==
    resp.route = "enhance" =>
        LET key_id == C19_InConfigFile("access_key_id") \/ req.access_key_id
            secret == C19_InConfigFile("secret_access_key") \/ req.secret_access_key
        IN  resp.fallback_used <=> ~(key_id /\ secret)

\* the keys of the member `field` of a document, {} when it has none
C20_KeysOf(doc, field) ==
    LET d == DictGet(doc, field, Obj(<<>>))
    IN  {d.items[i].s : i \in 1..Len(d.items)}

\* C20: GET /api/user/config with no config file answers success=true with
\* a default document of the Configuration shape: aws with access_key_id,
\* secret_access_key, region and model_id, github with token and
\* default_repo, non_functional_requirements, and preferences with
\* default_task_type, include_context_by_default and
\* include_requirements_by_default.
C20_DefaultHasConfigurationShape ==
    (resp.route = "get_config" /\ ~configFile.exists) =>
        /\ resp.status = 200 /\ resp.success
        /\ {resp.config.items[i].s : i \in 1..Len(resp.config.items)}
             = {"aws", "github", "non_functional_requirements", "preferences"}
        /\ C20_KeysOf(resp.config, "aws")
             = {"access_key_id", "secret_access_key", "region", "model_id"}
        /\ C20_KeysOf(resp.config, "github") = {"token", "default_repo"}
        /\ C20_KeysOf(resp.config, "preferences")
             = {"default_task_type", "include_context_by_default",
                "include_requirements_by_default"}

\* C14: every response carries the boolean 'success' or 'connected', and
\* every response of status 400 or above carries the string 'error'; the
\* 400 of /api/bedrock/chat and the answer of /api/health are no exception.
C14_UniformEnvelope ==
    pc = "responded" =>
        /\ "success" \in resp.keys \/ "connected" \in resp.keys
        /\ resp.status >= 400 => "error" \in resp.keys

\* the request lacks a field its route requires
C15_MissingField(r, file) ==
    \/ r.route = "repository_files" /\ r.repo_url = ""
    \/ r.route = "file_content" /\ (r.repo_url = "" \/ r.file_path = "")
    \/ r.route = "post_requirements" /\ (r.task_type = "" \/ ~r.has_requirements)
    \/ r.route = "github_test" /\ r.test_repo = ""
         /\ DictGet(DictGet(GetConfig(file), "github", Obj(<<>>)),
                    "default_repo", Str("")).s = ""

\* C15: a request that lacks a required field (repo_url for
\* /api/repositories/files, repo_url or file_path for the file-content
\* route, task_type or requirements for POST /api/requirements, a
\* repository from the request or the configuration for /api/github/test)
\* is answered 400 with no call made to GitHub and with the GitHub client
\* and the config store as they were.
C15_RejectedBeforeAnyEffect ==
    [][(pc = "idle" /\ pc' = "responded" /\ C15_MissingField(req', configFile))
        => /\ resp'.status = 400
           /\ resp'.github_calls = <<>>
           /\ githubClient' = githubClient
           /\ configFile' = configFile]_vars

\* a file listing without repo_url was refused while the client held the
\* token of an earlier request and a configuration was stored
C15_Witness ==
    /\ pc = "responded"
    /\ resp.route = "repository_files" /\ resp.status = 400
    /\ req.github_token # "" /\ githubClient.token # ""
    /\ githubClient.token # req.github_token
    /\ configFile.exists

\* C16: when two POST /api/user/config, one writing A and one writing B,
\* have both finished, the config file is the complete text of the
\* document of the one that finished last: never a mixture of the two,
\* never a truncated text.
C16_LastWriterWins ==
    (\A w \in Workers : workers[w].route = "post_config" /\ workers[w].pc = "done")
        => /\ configFile.exists
           /\ configFile.text = JsonDump(workers[finished[Len(finished)]].doc)

\* C17: no state is shared between requests in the process: however a
\* /api/repositories/files and a /api/github/test interleave, the call
\* each makes to GitHub goes out under the token of its own request.
C17_CallUsesOwnToken ==
    \A w \in Workers :
        (workers[w].pc = "done" /\ workers[w].route \in {"repository_files", "github_test"})
            => workers[w].used = workers[w].github_token

RECURSIVE C21_Labels(_)
\* the paths labelled in a text: the tokens that follow a "File: " token
C21_Labels(text) ==
    IF Len(text) < 2 THEN <<>>
    ELSE (IF Head(text) = "File: " THEN <<text[2]>> ELSE <<>>)
         \o C21_Labels(Tail(text))

\* a selected file that is missing, over the cap, or whose read fails
C21_Skipped(path) ==
    \/ ~Disk(path).exists
    \/ Disk(path).size > MaxFileSizeKB * 1024
    \/ ~Disk(path).readable

\* C21: /api/prompt/build with include_context answers success=true, and
\* the file blocks of final_prompt are those of the selected files that
\* are present, within the cap and readable, in the order of
\* selected_files: a file that is missing, over the cap or unreadable is
\* left out alone, the files before and after it keep their blocks.
C21_BlocksInSelectionOrder ==
    (resp.route = "build" /\ req.include_context)
        => /\ resp.status = 200 /\ resp.success
           /\ C21_Labels(resp.final_prompt)
                = SelectSeq(req.selected_files, LAMBDA p : ~C21_Skipped(p))
           /\ \A i \in FileIndices :
                LET path == req.selected_files[i] IN
                ~C21_Skipped(path)
                    => Occurs(<<"File: ", path, NL>> \o Disk(path).content \o <<NL>>,
                              resp.final_prompt)

\* three files selected, the middle one skipped, two different files
\* around it inlined in their order
C21_Witness ==
    /\ resp.route = "build" /\ req.include_context
    /\ Len(req.selected_files) = 3
    /\ ~C21_Skipped(req.selected_files[1])
    /\ C21_Skipped(req.selected_files[2])
    /\ ~C21_Skipped(req.selected_files[3])
    /\ req.selected_files[1] # req.selected_files[3]
    /\ resp.success
    /\ C21_Labels(resp.final_prompt)
         = <<req.selected_files[1], req.selected_files[3]>>

\* C22: on the primary path of /api/prompt/enhance every requirement
\* attached to enhanced_prompt is one of the list stored for the task
\* type, so requirements_applied is at most the length of that list.
C22_AttachedFromStored ==
    (resp.route = "enhance" /\ resp.ai_enhanced)
        => LET stored == StoredRequirements(req.task_type)
               attached == resp.relevant_requirements
           IN  /\ \A i \in 1..Len(attached) :
                     \E j \in 1..Len(stored) : stored[j] = attached[i]
               /\ resp.requirements_applied <= Len(stored)

\* C23: a GET /api/user/config served while a POST /api/user/config writes
\* document B over a file holding document A answers success=true with
\* config exactly A or exactly B: never an error, never a partial document.
C23_ReadSeesWholeDocument ==
    \A r \in Workers, w \in Workers :
        ( /\ workers[r].route = "get_config" /\ workers[r].pc = "done"
          /\ workers[w].route = "post_config" /\ workers[w].before.exists )
            => /\ workers[r].status = 200
               /\ workers[r].config \in {JsonLoads(workers[w].before.text).v,
                                         workers[w].doc}

====
